---- MODULE Spec2Model ----
(***************************************************************************)
(* Model of nvml-ocsd-reporter (src/src/main.rs): the bridge that polls    *)
(* GPU temperatures through NVML and republishes them in the OCSD table.   *)
(*                                                                         *)
(* One process run ("session") is the body of main().  The OCSD table      *)
(* (header + device slots) and the state file nvml_ocsd_reporter.json live *)
(* outside the process and survive from one session to the next.  The      *)
(* ctrlc handler runs on its own thread and interleaves with the main      *)
(* loop at every step.                                                     *)
(***************************************************************************)
EXTENDS Integers, Sequences, FiniteSets, TLC

\* ------------------------------------------------------------------ bounds
MaxSessions == 2    \* process runs in one behaviour
MaxDevices  == 2    \* devices NVML enumerates
MaxFirmware == 1    \* buffers_in_use as the firmware sets it
MaxCards    == 3    \* max_option_cards of the header
TableLen    == 4    \* length of context.device_mappings
MaxIter     == 2    \* polling iterations of one session
MaxSignals  == 2    \* stop signals delivered to one session

\* ------------------------------------------------------- program constants
U8  == 256          \* u8 arithmetic (original_buffers_in_use, max_option_cards)
U16 == 65536        \* u16 arithmetic (count)
BusSlot1 == 4       \* 0x04
BusSlot2 == 10      \* 0x0a
BusOther == 7       \* a bus that is in neither arm of the match
DefaultThreshold == 70
SlowdownCelsius  == 95
ThresholdOffset  == 20
ExitOk     == 0     \* main returned Ok(()) or exit(0)
ExitErr    == 1     \* main returned Err(NvmlError)
ExitPanic  == 101   \* a panic unwound out of main

Buses == {BusSlot1, BusSlot2, BusOther}
Temps == {45}
NoCode == -1
\* buffers_in_use of the header when a session starts: the firmware's value,
\* or that plus the devices of an earlier session
MaxBuffers == MaxFirmware + MaxDevices

VARIABLES
  \* --- outside the process
  session,          \* number of the running session
  overflow_checks,  \* build profile: TRUE = arithmetic overflow panics
  header,           \* OCSD header in the mapped memory
  table,            \* OCSD device slots in the mapped memory
  file_mode,        \* "missing" | "unreadable" | "ok"
  file_content,     \* sequence of JSON tokens in the state file
  \* --- main thread
  pc, exit_code,
  nvml_devices,     \* lines 267 and 276: the bus of every device of the list
  original_header, app_state, count, should_exit,
  zero_end,         \* end of the range of line 327
  index,            \* loop variable of the zeroing loop / the sweep
  \* --- ctrlc thread
  handler_set, pending, h_pc, h_count,
  \* --- history
  hist

env_vars  == <<session, overflow_checks, header, table, file_mode, file_content>>
main_vars == <<pc, exit_code, nvml_devices, original_header, app_state,
               count, should_exit, zero_end, index>>
sig_vars  == <<handler_set, pending, h_pc, h_count>>
vars == <<env_vars, main_vars, sig_vars, hist>>

\* ------------------------------------------------------------- pure parts

\* impl HasSlot for PciInfo: 0 stands for None
slot(bus) ==
  IF bus = BusSlot1 THEN 1 ELSE IF bus = BusSlot2 THEN 2 ELSE 0

RECURSIVE SelectIdx(_, _, _)
\* the subsequence of s at the positions in keep, order preserved
SelectIdx(s, keep, i) ==
  IF i > Len(s) THEN <<>>
  ELSE (IF i \in keep THEN <<s[i]>> ELSE <<>>) \o SelectIdx(s, keep, i + 1)

\* AppState { count, original_buffers_in_use }
AppState(c, b) == [count |-> c, original_buffers_in_use |-> b]

\* a complete JSON object as serde_json::to_writer emits it
JsonRecord(st) == [kind |-> "record", count |-> st.count,
                   original_buffers_in_use |-> st.original_buffers_in_use]
\* the bytes of an object whose writing has begun but not ended
JsonPartial == [kind |-> "partial"]
\* bytes that are no JSON object
JsonGarbage == [kind |-> "garbage"]

\* serde_json::from_reader::<AppState>: one value, then end of input
FromReader(content) ==
  IF Len(content) = 1 /\ content[1].kind = "record"
  THEN [ok |-> TRUE,
        value |-> AppState(content[1].count, content[1].original_buffers_in_use)]
  ELSE [ok |-> FALSE, value |-> AppState(0, 0)]

\* load_app_state falling back to AppState::default()
load_app_state_default(hdr, mode, content) ==
  IF mode = "ok" /\ FromReader(content).ok
  THEN FromReader(content).value
  ELSE AppState(0, 0)

\* lines 210-232
load_app_state(hdr, mode, content) ==
  IF mode = "ok"
  THEN IF FromReader(content).ok
       THEN FromReader(content).value
       ELSE AppState(0, hdr.buffers_in_use)
  ELSE AppState(0, hdr.buffers_in_use)

\* u8 + u8 and u8 - u8: ok = FALSE where the checked build panics
U8Add(a, b) == [ok |-> (a + b < U8) \/ ~overflow_checks, value |-> (a + b) % U8]
U8Sub(a, b) == [ok |-> (a >= b) \/ ~overflow_checks, value |-> (a - b + U8) % U8]

\* make_modified_header adding the devices to the header's own buffers_in_use
make_modified_header_incr(orig, st, devices) ==
  [orig EXCEPT !.buffers_in_use = U8Add(orig.buffers_in_use, Len(devices) % U8).value]

\* lines 243-252
make_modified_header(orig, st, devices) ==
  [orig EXCEPT !.buffers_in_use =
     U8Add(st.original_buffers_in_use, Len(devices) % U8).value]

\* ocsd_slot_for_index without the loop index
ocsd_slot_for_index_fixed(i, st) == st.original_buffers_in_use

\* ocsd_slot_for_index without the offset
ocsd_slot_for_index_raw(i, st) == i

\* lines 320-323 (usize arithmetic)
ocsd_slot_for_index(i, st) == i + st.original_buffers_in_use

\* the zeroing range as an inclusive range
ZeroRangeInclusive(orig, st) ==
  [ok |-> U8Sub(orig.max_option_cards, st.original_buffers_in_use).ok,
   value |-> U8Sub(orig.max_option_cards, st.original_buffers_in_use).value + 1]

\* the zeroing range without the subtraction
ZeroRangeAll(orig, st) == [ok |-> TRUE, value |-> orig.max_option_cards]

\* line 327: the end of the zeroing range
ZeroRange(orig, st) == U8Sub(orig.max_option_cards, st.original_buffers_in_use)

\* lines 330-338
ZeroDevice == [version |-> "unknown", pci_bus |-> 0, reading |-> 0,
               max_continuous_threshold |-> 0, update_count |-> 0]

\* temperature_threshold(Slowdown) of the device on a bus, 0 for Err: the
\* device on bus 0x0a does not report one
Slowdown(bus) == IF bus = BusSlot2 THEN 0 ELSE SlowdownCelsius

\* lines 105-134 followed by From<DeviceInfo> for OcsdDevice, lines 137-167
read_device_info(bus, temp, c) ==
  [version |-> "v1", pci_bus |-> bus, reading |-> temp,
   max_continuous_threshold |->
     IF Slowdown(bus) = 0 THEN DefaultThreshold ELSE Slowdown(bus) - ThresholdOffset,
   update_count |-> c]


\* ------------------------------------------------------------ state space

NullHeader == [buffers_in_use |-> 0, max_option_cards |-> 0]
\* what the firmware left in a slot before the first session
FirmwareDevice == [version |-> "firmware", pci_bus |-> 0, reading |-> 0,
                   max_continuous_threshold |-> 0, update_count |-> 0]

\* the lists NVML can enumerate: every device sits on a bus of its own
DeviceLists ==
  {d \in UNION {[1..n -> Buses] : n \in 0..MaxDevices} :
     \A i, j \in 1..Len(d) : i # j => d[i] # d[j]}
StartCounts == {0, U16 - 1}

\* contents the state file can have when a session starts: nothing (created
\* by a session that was killed), no JSON, a record followed by the start of
\* another, or the one record of an earlier session, taken when the header
\* held b
InitialFiles(hdr) ==
  {<<>>, <<JsonGarbage>>, <<JsonRecord(AppState(0, hdr.buffers_in_use)), JsonPartial>>} \cup
  {<<JsonRecord(AppState(c, b))>> : c \in StartCounts, b \in 0..hdr.buffers_in_use}

\* history of the running session, reset by Restart
NewHist(prev) ==
  [writes |-> {},            \* slot writes: [phase, slot, dev]
   zero_count |-> 0,         \* writes of the zeroing loop
   header_written |-> FALSE, \* write_header has run
   detected |-> "no",        \* device enumeration returned "none" or "some"
   found |-> <<>>,           \* the list as enumerated, kept while the transport is not open
   loaded |-> FALSE,         \* load_app_state has returned
   iters |-> 0,              \* completed polling iterations
   sweeps |-> 0,             \* sweeps begun
   last_stamp |-> NoCode,    \* update_count of the latest slot write
   signals |-> 0,            \* stop signals delivered
   runs |-> 0,               \* handler invocations begun
   h_iters |-> 0,            \* iters when the handler last read count
   flag_begun |-> NoCode,    \* iterations begun when should_exit became true
   flag_sweeps |-> NoCode,   \* sweeps begun when should_exit became true
   flag_index |-> NoCode,    \* index of the sweep when should_exit became true
   end |-> "running",        \* how main ended
   prev |-> prev]            \* summary of the previous session

NoPrev == [end |-> "none", loaded |-> FALSE, obiu |-> 0, last_stamp |-> NoCode,
           runs |-> 0]

\* a session starts: the header may carry the devices of an earlier session
Init ==
  /\ session = 1
  /\ overflow_checks \in BOOLEAN
  /\ header \in [buffers_in_use : 0..MaxBuffers,
                 max_option_cards : (MaxCards - 1)..MaxCards]
  /\ table = [i \in 0..(TableLen - 1) |-> FirmwareDevice]
  /\ file_mode \in {"missing", "unreadable", "ok"}
  /\ file_content \in
       CASE file_mode = "missing" -> {<<>>}
         [] file_mode = "unreadable" -> {<<JsonRecord(AppState(0, header.buffers_in_use))>>}
         [] OTHER -> InitialFiles(header)
  /\ pc = "start" /\ exit_code = NoCode
  /\ nvml_devices = <<>>
  /\ original_header = NullHeader /\ app_state = AppState(0, 0)
  /\ count = 0 /\ should_exit = FALSE /\ zero_end = 0 /\ index = 0
  /\ handler_set = FALSE /\ pending = 0 /\ h_pc = "idle" /\ h_count = 0
  /\ hist = NewHist(NoPrev)

\* the process ends: code is the exit status, how names the path
Exit(code, how) ==
  /\ pc' = "exited"
  /\ exit_code' = code
  /\ hist' = [hist EXCEPT !.end = how]

\* ------------------------------------------------------------ main thread

\* lines 265-272: Nvml::init, device_count, device_by_index (a device whose
\* device_by_index fails is left out of the list)
Startup ==
  /\ pc = "start"
  /\ \/ /\ \E devs \in DeviceLists : nvml_devices' = devs
        /\ pc' = "detected"
        /\ hist' = [hist EXCEPT !.detected =
                       IF Len(nvml_devices') = 0 THEN "none" ELSE "some",
                                !.found = nvml_devices']
        /\ UNCHANGED exit_code
     \/ /\ Exit(ExitErr, "err_init")
        /\ UNCHANGED nvml_devices
  /\ UNCHANGED <<env_vars, sig_vars, original_header, app_state, count,
                 should_exit, zero_end, index>>

\* the test of line 274 passing for an empty list
HasDevicesAny(devs) == Len(devs) >= 0

\* line 274
HasDevices(devs) == Len(devs) > 0

\* lines 364-367
NoDevices ==
  /\ pc = "detected"
  /\ ~HasDevices(nvml_devices)
  /\ Exit(ExitOk, "no_devices")
  /\ UNCHANGED <<env_vars, sig_vars, nvml_devices, original_header,
                 app_state, count, should_exit, zero_end, index>>

\* the listing logging a failed read and leaving with exit(0)
print_nvml_devices_exit0 ==
  /\ pc = "detected"
  /\ HasDevices(nvml_devices)
  /\ \/ /\ pc' = "printed"
        /\ UNCHANGED <<exit_code, hist>>
     \/ Exit(ExitOk, "err_print")
     \/ Exit(ExitPanic, "panic")
  /\ UNCHANGED <<env_vars, sig_vars, nvml_devices, original_header,
                 app_state, count, should_exit, zero_end, index>>

\* line 275, lines 170-206: a failing read ends main with the error (lines
\* 173 and 201), a value the conversions of lines 109-117 and 153-158 reject
\* panics
print_nvml_devices ==
  /\ pc = "detected"
  /\ HasDevices(nvml_devices)
  /\ \/ /\ pc' = "printed"
        /\ UNCHANGED <<exit_code, hist>>
     \/ Exit(ExitErr, "err_print")
     \/ Exit(ExitPanic, "panic")
  /\ UNCHANGED <<env_vars, sig_vars, nvml_devices, original_header,
                 app_state, count, should_exit, zero_end, index>>

\* the filter keeping the devices without a slot, as the one of lines 182-186
KeptUnknown(devs, failed) ==
  {i \in 1..Len(devs) : slot(devs[i]) = 0 /\ i \notin failed}

\* positions of the devices the filter of lines 276-283 can keep: pci_info
\* fails for the devices in failed
Kept(devs, failed) == {i \in 1..Len(devs) : slot(devs[i]) # 0 /\ i \notin failed}

\* lines 276-283
FilterDevices ==
  /\ pc = "printed"
  /\ \E failed \in SUBSET (1..Len(nvml_devices)) :
        nvml_devices' = SelectIdx(nvml_devices, Kept(nvml_devices, failed), 1)
  /\ pc' = "filtered"
  /\ UNCHANGED <<env_vars, sig_vars, exit_code, original_header,
                 app_state, count, should_exit, zero_end, index, hist>>

\* line 285, Ok arm
OpenContextOk ==
  /\ pc = "filtered"
  /\ pc' = "context"
  /\ UNCHANGED <<env_vars, sig_vars, exit_code, nvml_devices,
                 original_header, app_state, count, should_exit, zero_end, index, hist>>

\* the Err arm returning the error to the caller of main
OpenContextErrFatal ==
  /\ pc = "filtered"
  /\ Exit(ExitErr, "no_context")
  /\ UNCHANGED <<env_vars, sig_vars, nvml_devices, original_header,
                 app_state, count, should_exit, zero_end, index>>

\* line 285, Err arm: lines 358-363, then Ok(()) of line 369
OpenContextErr ==
  /\ pc = "filtered"
  /\ Exit(ExitOk, "no_context")
  /\ UNCHANGED <<env_vars, sig_vars, nvml_devices, original_header,
                 app_state, count, should_exit, zero_end, index>>

\* lines 287-294
ReadHeader ==
  /\ pc = "context"
  /\ original_header' = header
  /\ app_state' = load_app_state(header, file_mode, file_content)
  /\ count' = app_state'.count
  /\ pc' = "loaded"
  /\ hist' = [hist EXCEPT !.loaded = TRUE, !.found = <<>>]
  /\ UNCHANGED <<env_vars, sig_vars, exit_code, nvml_devices,
                 should_exit, zero_end, index>>

\* lines 296-301
WriteHeader ==
  /\ pc = "loaded"
  /\ IF U8Add(app_state.original_buffers_in_use, Len(nvml_devices) % U8).ok
     THEN /\ header' = make_modified_header(original_header, app_state, nvml_devices)
          /\ pc' = "negotiated"
          /\ hist' = [hist EXCEPT !.header_written = TRUE]
          /\ UNCHANGED exit_code
     ELSE /\ Exit(ExitPanic, "panic")
          /\ UNCHANGED header
  /\ UNCHANGED <<session, overflow_checks, table, file_mode, file_content, sig_vars,
                 nvml_devices, original_header, app_state, count,
                 should_exit, zero_end, index>>

\* lines 234-241: create + truncate + write; 0 bytes afterwards
open_state_file(mode) == [mode |-> IF mode = "missing" THEN "ok" ELSE mode,
                          content |-> <<>>]

\* lines 303-304: unwrap panics when the file cannot be opened for writing
OpenStateFile ==
  /\ pc = "negotiated"
  /\ \/ /\ file_mode' = open_state_file(file_mode).mode
        /\ file_content' = open_state_file(file_mode).content
        /\ should_exit' = FALSE
        /\ pc' = "opened"
        /\ UNCHANGED <<exit_code, hist>>
     \/ /\ Exit(ExitPanic, "panic")
        /\ UNCHANGED <<file_mode, file_content, should_exit>>
  /\ UNCHANGED <<session, overflow_checks, header, table, sig_vars, nvml_devices, original_header, app_state, count, zero_end, index>>

\* lines 306-318: ctrlc::set_handler
SetHandler ==
  /\ pc = "opened"
  /\ handler_set' = TRUE
  /\ pc' = "registered"
  /\ UNCHANGED <<env_vars, exit_code, nvml_devices, original_header,
                 app_state, count, should_exit, zero_end, index, pending, h_pc,
                 h_count, hist>>


\* lines 326-327: the range of the zeroing loop is evaluated once
ZeroBegin ==
  /\ pc = "registered"
  /\ IF ZeroRange(original_header, app_state).ok
     THEN /\ zero_end' = ZeroRange(original_header, app_state).value
          /\ index' = 0
          /\ pc' = "zeroing"
          /\ UNCHANGED <<exit_code, hist>>
     ELSE /\ Exit(ExitPanic, "panic")
          /\ UNCHANGED <<zero_end, index>>
  /\ UNCHANGED <<env_vars, sig_vars, nvml_devices, original_header,
                 app_state, count, should_exit>>

\* context.device_mappings[s].write(dev): indexing past the end panics
SlotWrite(s, dev, phase, i) ==
  IF s < TableLen
  THEN /\ table' = [table EXCEPT ![s] = dev]
       /\ index' = i + 1
       /\ hist' = [hist EXCEPT
            !.writes = @ \cup {[phase |-> phase, slot |-> s, dev |-> i]},
            !.zero_count = IF phase = "zero" THEN @ + 1 ELSE @,
            !.last_stamp = IF phase = "poll" THEN dev.update_count ELSE @,
            !.sweeps = IF phase = "poll" /\ i = 0 THEN @ + 1 ELSE @]
       /\ UNCHANGED <<pc, exit_code>>
  ELSE /\ Exit(ExitPanic, "panic")
       /\ UNCHANGED <<table, index>>

\* lines 329-339: one pass of the zeroing loop
ZeroStep ==
  /\ pc = "zeroing"
  /\ index < zero_end
  /\ SlotWrite(ocsd_slot_for_index(index, app_state), ZeroDevice, "zero", index)
  /\ UNCHANGED <<session, overflow_checks, header, file_mode, file_content, sig_vars,
                 nvml_devices, original_header, app_state, count,
                 should_exit, zero_end>>

\* line 340 -> 342: the zeroing loop ends, the polling loop begins
ZeroEnd ==
  /\ pc = "zeroing"
  /\ index >= zero_end
  /\ pc' = "sweep"
  /\ index' = 0
  /\ UNCHANGED <<env_vars, sig_vars, exit_code, nvml_devices,
                 original_header, app_state, count, should_exit, zero_end, hist>>

\* lines 343-348: one pass of the sweep whose read returns a record
SweepOk ==
  /\ pc = "sweep"
  /\ index < Len(nvml_devices)
  /\ \E temp \in Temps :
        SlotWrite(ocsd_slot_for_index(index, app_state),
                  read_device_info(nvml_devices[index + 1], temp, count),
                  "poll", index)
  /\ UNCHANGED <<session, overflow_checks, header, file_mode, file_content, sig_vars,
                 nvml_devices, original_header, app_state, count,
                 should_exit, zero_end>>

\* line 345: a failing read returns the error from main, a value the
\* conversions of lines 109-117 and 153-158 reject panics
SweepFail ==
  /\ pc = "sweep"
  /\ index < Len(nvml_devices)
  /\ \/ Exit(ExitErr, "err_poll")
     \/ Exit(ExitPanic, "panic")
  /\ UNCHANGED <<env_vars, sig_vars, nvml_devices, original_header, app_state,
                 count, should_exit, zero_end, index>>

\* lines 343-348: one pass of the sweep
SweepStep == SweepOk \/ SweepFail

\* the sweep of lines 343-348 also ending when should_exit is set
SleepEarly ==
  /\ pc = "sweep"
  /\ (index >= Len(nvml_devices) \/ should_exit)
  /\ pc' = "slept"
  /\ hist' = [hist EXCEPT !.sweeps = IF Len(nvml_devices) = 0 THEN @ + 1 ELSE @]
  /\ UNCHANGED <<env_vars, sig_vars, exit_code, nvml_devices,
                 original_header, app_state, count, should_exit, zero_end, index>>

\* line 350: the sweep is over, the thread sleeps for a second
Sleep ==
  /\ pc = "sweep"
  /\ index >= Len(nvml_devices)
  /\ pc' = "slept"
  /\ hist' = [hist EXCEPT !.sweeps = IF Len(nvml_devices) = 0 THEN @ + 1 ELSE @]
  /\ UNCHANGED <<env_vars, sig_vars, exit_code, nvml_devices,
                 original_header, app_state, count, should_exit, zero_end, index>>

\* line 351: AtomicU16::fetch_add wraps
FetchAdd(c) == (c + 1) % U16

\* line 351
Increment ==
  /\ pc = "slept"
  /\ count' = FetchAdd(count)
  /\ pc' = "check"
  /\ hist' = [hist EXCEPT !.iters = @ + 1]
  /\ UNCHANGED <<env_vars, sig_vars, exit_code, nvml_devices,
                 original_header, app_state, should_exit, zero_end, index>>

\* the test of line 353 negated
CheckExitInverted ==
  /\ pc = "check"
  /\ IF ~should_exit
     THEN /\ Exit(ExitOk, "flag")
          /\ UNCHANGED index
     ELSE /\ hist.iters < MaxIter
          /\ pc' = "sweep"
          /\ index' = 0
          /\ UNCHANGED <<exit_code, hist>>
  /\ UNCHANGED <<env_vars, sig_vars, nvml_devices, original_header,
                 app_state, count, should_exit, zero_end>>

\* lines 353-355, then Ok(()) of line 369
CheckExit ==
  /\ pc = "check"
  /\ IF should_exit
     THEN /\ Exit(ExitOk, "flag")
          /\ UNCHANGED index
     ELSE /\ hist.iters < MaxIter
          /\ pc' = "sweep"
          /\ index' = 0
          /\ UNCHANGED <<exit_code, hist>>
  /\ UNCHANGED <<env_vars, sig_vars, nvml_devices, original_header,
                 app_state, count, should_exit, zero_end>>

\* ----------------------------------------------------------- ctrlc thread

Running == pc # "exited"

\* SIGINT arrives while the handler is installed
Signal ==
  /\ Running
  /\ handler_set
  /\ hist.signals < MaxSignals
  /\ pending' = pending + 1
  /\ hist' = [hist EXCEPT !.signals = @ + 1]
  /\ UNCHANGED <<env_vars, main_vars, handler_set, h_pc, h_count>>

\* lines 309-315: the closure is called, reads count (line 312) and
\* to_writer starts to write the object, piecewise, at the file's position
HandlerBegin ==
  /\ Running
  /\ h_pc = "idle"
  /\ pending > 0
  /\ pending' = pending - 1
  /\ h_count' = count
  /\ file_content' = Append(file_content, JsonPartial)
  /\ h_pc' = "writing"
  /\ hist' = [hist EXCEPT !.runs = @ + 1, !.h_iters = hist.iters]
  /\ UNCHANGED <<session, overflow_checks, header, table, file_mode, main_vars,
                 handler_set>>

\* the handler reading count only when the object is complete
HandlerWriteEndLate ==
  /\ Running
  /\ h_pc = "writing"
  /\ file_content' = [file_content EXCEPT ![Len(file_content)] =
        JsonRecord(AppState(count, app_state.original_buffers_in_use))]
  /\ h_pc' = "written"
  /\ UNCHANGED <<session, overflow_checks, header, table, file_mode, main_vars,
                 handler_set, pending, h_count, hist>>

\* lines 309-316: the last piece of the object is written
HandlerWriteEnd ==
  /\ Running
  /\ h_pc = "writing"
  /\ file_content' = [file_content EXCEPT ![Len(file_content)] =
        JsonRecord(AppState(h_count, app_state.original_buffers_in_use))]
  /\ h_pc' = "written"
  /\ UNCHANGED <<session, overflow_checks, header, table, file_mode, main_vars,
                 handler_set, pending, h_count, hist>>

\* iterations of the loop of line 342 begun so far
Begun ==
  IF pc \in {"sweep", "slept"} THEN hist.iters + 1
  ELSE IF pc = "check" THEN hist.iters ELSE 0

\* line 317
HandlerStore ==
  /\ Running
  /\ h_pc = "written"
  /\ should_exit' = TRUE
  /\ h_pc' = "idle"
  /\ hist' = IF should_exit THEN hist
             ELSE [hist EXCEPT !.flag_begun = Begun, !.flag_sweeps = hist.sweeps,
                               !.flag_index = IF pc = "sweep" THEN index ELSE NoCode]
  /\ UNCHANGED <<env_vars, pc, exit_code, nvml_devices, original_header,
                 app_state, count, zero_end, index, handler_set, pending, h_count>>

\* ---------------------------------------------------------- outside world

\* what the next session's history keeps of the session that ended in how
Summary(how) ==
  [end |-> how,
   loaded |-> hist.loaded,
   obiu |-> app_state.original_buffers_in_use,
   last_stamp |-> IF how = "flag" THEN hist.last_stamp ELSE NoCode,
   runs |-> IF how = "flag" THEN hist.runs ELSE 0]

\* a new process: nothing of the old one's memory is left
NewProcess(how) ==
  /\ session < MaxSessions
  /\ session' = session + 1
  /\ pc' = "start" /\ exit_code' = NoCode
  /\ nvml_devices' = <<>>
  /\ original_header' = NullHeader /\ app_state' = AppState(0, 0)
  /\ count' = 0 /\ should_exit' = FALSE /\ zero_end' = 0 /\ index' = 0
  /\ handler_set' = FALSE /\ pending' = 0 /\ h_pc' = "idle" /\ h_count' = 0
  /\ hist' = NewHist(Summary(how))
  /\ UNCHANGED <<overflow_checks, header, table, file_mode, file_content>>

\* the binary is started again on the same machine after main ended
Restart ==
  /\ pc = "exited"
  /\ NewProcess(hist.end)

\* the process is killed (SIGKILL, power loss, SIGINT before the handler is
\* set) and the binary is started again
KillRestart ==
  /\ Running
  /\ NewProcess("killed")

\* one run of the binary
Session ==
  \/ Startup \/ NoDevices \/ print_nvml_devices \/ FilterDevices
  \/ OpenContextOk \/ OpenContextErr \/ ReadHeader \/ WriteHeader
  \/ OpenStateFile \/ SetHandler \/ ZeroBegin \/ ZeroStep \/ ZeroEnd
  \/ SweepStep \/ Sleep \/ Increment \/ CheckExit
  \/ Signal \/ HandlerBegin \/ HandlerWriteEnd \/ HandlerStore

Next == Session

\* the steps of the main thread when every telemetry read of the loop returns
MainLive ==
  \/ Startup \/ NoDevices \/ print_nvml_devices \/ FilterDevices
  \/ OpenContextOk \/ OpenContextErr \/ ReadHeader \/ WriteHeader
  \/ OpenStateFile \/ SetHandler \/ ZeroBegin \/ ZeroStep \/ ZeroEnd
  \/ SweepOk \/ Sleep \/ Increment \/ CheckExit

\* the steps of the ctrlc thread
HandlerRun == HandlerBegin \/ HandlerWriteEnd \/ HandlerStore

NextLive == MainLive \/ Signal \/ HandlerRun

\* one process run
Spec == Init /\ [][Next]_vars

\* one process run in which reads return and both threads keep running
SpecLive == Init /\ [][NextLive]_vars /\ WF_vars(MainLive) /\ WF_vars(HandlerRun)

NextRestart == Session \/ Restart \/ KillRestart

\* the first session on a machine: the header is as the firmware set it
FirstInit ==
  /\ Init
  /\ header.buffers_in_use <= MaxFirmware
  /\ header.buffers_in_use <= header.max_option_cards

\* process runs one after the other on the same machine
SpecRestart == FirstInit /\ [][NextRestart]_vars


\* ------------------------------------------------------------ properties

B == app_state.original_buffers_in_use
N == Len(nvml_devices)
M == original_header.max_option_cards

Max(a, b) == IF a >= b THEN a ELSE b

PollWrites == {w \in hist.writes : w.phase = "poll"}
ZeroWrites == {w \in hist.writes : w.phase = "zero"}
Slots(ws) == {w.slot : w \in ws}
LiveSlots == {B + i : i \in 0..(N - 1)}

\* no slot has been written since the machine's first session started
TableUntouched ==
  session = 1 => table = [i \in 0..(TableLen - 1) |-> FirmwareDevice]

\* the zeroing loop has run to its end
ZeroingDone == pc \in {"sweep", "slept", "check"}
\* a sweep has run to its end
SweptOnce == pc = "slept" \/ hist.iters >= 1

\* C1: in Polling the device at position i of the list is written to slot
\* original_buffers_in_use + i, in every sweep, so two devices never share a
\* slot; after a sweep slot B + i holds the record of device i.
C1_StableSlot ==
  /\ \A w \in PollWrites :
        /\ w.slot = B + w.dev
        /\ \A v \in PollWrites : v.dev # w.dev => v.slot # w.slot
  /\ pc = "slept" =>
        \A i \in 0..(N - 1) :
           /\ table[B + i].version = "v1"
           /\ table[B + i].pci_bus = nvml_devices[i + 1]

\* two devices, a second sweep done: slots 1 and 2
C1_Witness ==
  /\ pc = "slept" /\ hist.iters = 1
  /\ B = 1 /\ nvml_devices = <<BusSlot1, BusSlot2>>
  /\ Slots(PollWrites) = {1, 2}

\* C2 as claimed: the slots written in a session, Zeroing and Polling
\* together, are exactly B .. B+N-1.
C2_OnlyLiveSlots == SweptOnce => Slots(hist.writes) = LiveSlots

\* C2 amended: Polling writes exactly B .. B+N-1 and Zeroing writes B .. M-1,
\* so a session with B <= M writes exactly B .. max(M, B+N)-1.
C2_WrittenSlots ==
  (SweptOnce /\ B <= M) =>
     /\ Slots(PollWrites) = LiveSlots
     /\ Slots(ZeroWrites) = B..(M - 1)
     /\ Slots(hist.writes) = B..(Max(M, B + N) - 1)

\* one device, three cards: slots 0, 1, 2 zeroed, slot 0 polled
C2_Witness ==
  /\ SweptOnce /\ B = 0 /\ N = 1 /\ M = 3
  /\ Slots(hist.writes) = {0, 1, 2}

\* C3: no slot below original_buffers_in_use is written, in Zeroing or in
\* Polling: those slots keep what they held when the session started.
C3_LowerSlotsUntouched ==
  /\ \A w \in hist.writes : w.slot >= B
  /\ (hist.loaded /\ session = 1) =>
        \A i \in 0..(TableLen - 1) : i < B => table[i] = FirmwareDevice

\* B above max_option_cards, the range wrapped, and slot B was zeroed
C3_Witness ==
  /\ B > M /\ B > 0
  /\ [phase |-> "zero", slot |-> B, dev |-> 0] \in hist.writes

\* C4 as claimed: Zeroing writes M - B slots and none of them is the slot
\* of a live device.
C4_ZeroSparesLive ==
  ZeroingDone =>
     /\ hist.zero_count = M - B
     /\ Slots(ZeroWrites) \cap LiveSlots = {}

\* C4 amended: with B <= M Zeroing writes the zero record to exactly the
\* M - B slots B .. M-1, the slots of the live devices among them.
C4_ZeroRange ==
  (ZeroingDone /\ B <= M) =>
     /\ hist.zero_count = M - B
     /\ Slots(ZeroWrites) = B..(M - 1)
     /\ \A s \in LiveSlots : s < M => s \in Slots(ZeroWrites)

\* the zeroing loop ended having zeroed the slot of a live device
C4_Witness ==
  /\ pc = "sweep" /\ index = 0 /\ hist.sweeps = 0
  /\ B = 1 /\ M = 3 /\ N = 2
  /\ table[1] = ZeroDevice /\ table[2] = ZeroDevice

OneRecord == Len(file_content) = 1 /\ file_content[1].kind = "record"

\* C6 as claimed: a session that follows one stopped by the stop request
\* loads the original_buffers_in_use of that session and a count that is at
\* least the last update counter that session stamped.
C6_RoundTrip ==
  (session > 1 /\ hist.loaded /\ file_mode = "ok"
     /\ hist.prev.end = "flag" /\ hist.prev.runs = 1) =>
     /\ B = hist.prev.obiu
     /\ app_state.count >= hist.prev.last_stamp

\* C7 as claimed: started from count 0 and stopped by one signal, the
\* persisted count is the number of iterations completed at termination.
C7_CountIsIterations ==
  (hist.end = "flag" /\ app_state.count = 0 /\ hist.signals = 1) =>
     /\ OneRecord
     /\ file_content[1].count = hist.iters

\* C7 amended: the persisted count is the number of iterations completed
\* when the handler read the counter, at most the number at termination.
C7_CountAtSignal ==
  (hist.end = "flag" /\ app_state.count = 0 /\ hist.signals = 1) =>
     /\ file_content = <<JsonRecord(AppState(hist.h_iters, B))>>
     /\ hist.h_iters <= hist.iters

\* the signal came in the second iteration: 1 persisted, 2 completed
C7_Witness ==
  /\ hist.end = "flag" /\ app_state.count = 0 /\ hist.signals = 1
  /\ hist.h_iters = 1 /\ hist.iters = 2
  /\ OneRecord /\ file_content[1].count = 1

\* C8: load never ends the process: a file that is missing, unreadable or
\* not one JSON record gives count 0 and the buffers_in_use of the header
\* just read, one well-formed record is returned as it is.
C8_LoadNeverFails ==
  pc = "loaded" =>
     /\ exit_code = NoCode
     /\ original_header = header
     /\ count = app_state.count
     /\ IF file_mode = "ok" /\ OneRecord
        THEN /\ app_state.count = file_content[1].count
             /\ B = file_content[1].original_buffers_in_use
        ELSE /\ app_state.count = 0
             /\ B = header.buffers_in_use

\* a file without JSON, the header at 2: the fallback is {0, 2}
C8_Witness ==
  /\ pc = "loaded" /\ file_mode = "ok" /\ file_content = <<JsonGarbage>>
  /\ header.buffers_in_use = 2 /\ app_state = AppState(0, 2)

\* C9: with no device detected the process exits with code 0 before any
\* header, zeroing or device write and the polling loop never starts.
C9_NoDevices ==
  hist.detected = "none" =>
     /\ pc \in {"detected", "exited"}
     /\ pc = "exited" => (exit_code = ExitOk /\ hist.end = "no_devices")
     /\ ~hist.header_written /\ ~hist.loaded
     /\ hist.writes = {} /\ hist.sweeps = 0
     /\ TableUntouched

\* the process has exited on the no-devices path
C9_Witness == pc = "exited" /\ hist.end = "no_devices" /\ hist.detected = "none"

\* C10: when the transport cannot be opened the process exits with code 0,
\* having written no header and no slot and without starting the loop.
C10_NoContext ==
  hist.end = "no_context" =>
     /\ pc = "exited" /\ exit_code = ExitOk
     /\ ~hist.header_written /\ ~hist.loaded /\ ~handler_set
     /\ hist.writes = {} /\ hist.sweeps = 0
     /\ TableUntouched

\* devices were found, then the transport failed to open
C10_Witness == hist.end = "no_context" /\ N > 0 /\ hist.detected = "some"

\* the paths on which main returns an NvmlError
ErrEnds == {"err_init", "err_print", "err_poll"}
\* the paths on which main returns Ok(()) or calls exit(0)
OkEnds == {"no_devices", "no_context", "flag"}

\* C11 as claimed: the process ends with a non-zero exit only through a
\* telemetry read failure inside Polling.
C11_OnlyPollingFails ==
  (pc = "exited" /\ exit_code # ExitOk) => hist.end = "err_poll"

\* C11 amended: the exit is non-zero exactly when main returns an NvmlError
\* (NVML initialisation or device count, a read in the startup listing, a
\* read in Polling: code 1) or panics (code 101); the no-devices path, the
\* failed transport and the stop request end with code 0.
C11_NonZeroExit ==
  pc = "exited" =>
     /\ hist.end \in ErrEnds \cup OkEnds \cup {"panic"}
     /\ exit_code = ExitErr <=> hist.end \in ErrEnds
     /\ exit_code = ExitPanic <=> hist.end = "panic"
     /\ exit_code = ExitOk <=> hist.end \in OkEnds
     /\ hist.end = "err_print" => (~hist.loaded /\ hist.sweeps = 0)

\* a read of the startup listing failed: code 1 before the loop started
C11_Witness ==
  /\ pc = "exited" /\ hist.end = "err_print" /\ exit_code = ExitErr
  /\ hist.detected = "some" /\ hist.sweeps = 0

\* the filter of lines 276-283 has run
Filtered == pc \in {"filtered", "context"} \/ hist.end = "no_context"
\* positions of the enumerated devices whose bus has a slot
KnownPositions == {i \in 1..Len(hist.found) : slot(hist.found[i]) # 0}
\* the lookup of lines 59-63 over every bus byte
SlotLookup ==
  /\ slot(BusSlot1) = 1 /\ slot(BusSlot2) = 2
  /\ \A b \in 0..(U8 - 1) : b \notin {BusSlot1, BusSlot2} => slot(b) = 0

Raised == hist.flag_begun # NoCode

StampOfLastSweep == (count + U16 - 1) % U16

\* C14: when the loop ends on the termination flag the last sweep has
\* written the slot of every managed device, all with the counter of that
\* iteration, wherever in the sweep the handler ran.
C14_SweepComplete ==
  hist.end = "flag" =>
     /\ index = N
     /\ \A i \in 0..(N - 1) :
           \E temp \in Temps :
              table[B + i] = read_device_info(nvml_devices[i + 1], temp, StampOfLastSweep)

\* the flag was raised between the two writes of the only sweep, and the
\* loop ended with both slots written
C14_Witness ==
  /\ hist.end = "flag" /\ N = 2 /\ hist.iters = 1
  /\ hist.flag_index = 1
  /\ table[B].pci_bus = nvml_devices[1] /\ table[B + 1].pci_bus = nvml_devices[2]

\* C15 as claimed: once the handler has begun to write the state the
\* process does not exit before the write is complete, on the flag exit and
\* on a failed read in Polling.
C15_PersistCompletes ==
  (pc = "exited" /\ hist.end \in {"flag", "err_poll"}) => h_pc # "writing"

\* C16 as claimed: within a session the update counter stamped into a
\* record is never smaller than one stamped earlier.
C16_Monotonic ==
  [][hist.last_stamp # NoCode => hist'.last_stamp >= hist.last_stamp]_vars

\* C17 as claimed: a session that follows one ended by the stop request, by
\* a failed read in Polling or by a kill loads the original_buffers_in_use
\* that session had, so the header written does not grow.
C17_OffsetKept ==
  (session > 1 /\ hist.loaded /\ file_mode # "unreadable"
     /\ hist.prev.loaded /\ hist.prev.end \in {"flag", "err_poll", "killed"}) =>
     B = hist.prev.obiu

\* C18 as claimed: when the handler has run more than once, each run to its
\* end, the state file at exit holds exactly one well-formed record, which
\* the next load returns.
C18_OneRecordAtExit ==
  (pc = "exited" /\ hist.end = "flag" /\ hist.runs >= 2 /\ h_pc = "idle"
     /\ file_mode = "ok") =>
     /\ OneRecord
     /\ load_app_state(header, file_mode, file_content).original_buffers_in_use = B

\* C19 as claimed: every slot written, in Zeroing or in Polling, is below
\* max_option_cards, whatever B, N and M are.
C19_BelowMaxCards ==
  \A w \in hist.writes : w.slot < M

\* a stop request has been delivered to the registered handler
StopDelivered == handler_set /\ hist.signals > 0
\* the loop has left through the break of line 354
Terminated == pc = "exited" /\ hist.end = "flag"

\* C20 as claimed: with every read returning, a stop request delivered
\* after the handler is registered leads to Terminated, and at most one
\* sweep begins after the flag was raised.
C20_StopTerminates ==
  /\ StopDelivered ~> Terminated
  /\ [](Raised => hist.sweeps <= hist.flag_sweeps + 1)

====
